---------------------------- MODULE Spec2Model ----------------------------
(***************************************************************************)
(* Prediction market smart contract (src/src/lib.rs): the three entry      *)
(* points initmarket, bet and closemarket over the contract's persisted    *)
(* state, with the settlement arithmetic in 32-bit integers and IEEE-754   *)
(* single precision as the code computes it.                               *)
(***************************************************************************)
EXTENDS Integers, Sequences, FiniteSets, TLC

VARIABLES
    marketclosed,         \* state string "marketclosed": "" until first set
    betenddatetime,       \* state int64 "betenddatetime": 0 until first set
    containerofbetsjson,  \* state string "containerofbetsjson": the JSON object, as its set of members
    betvalue,             \* state maps <address>."betvalue", one per betting address
    now,                  \* timestamp of the latest call (host clock, never decreasing)
    last,                 \* the latest call: entry point, caller and how it ended
    transfers,            \* transfers sent by the latest call, in the order sent
    logged,               \* totals logged by the latest call (lines 197-200), NoTotals if none
    funds,                \* history: IOTA that came in with bet calls and IOTA sent out, in total
    accepted              \* history: per caller, its most recent bet that was stored; LateOnly when
                          \* every bet of the caller so far came after the end time

vars == <<marketclosed, betenddatetime, containerofbetsjson, betvalue, now,
          last, transfers, logged, funds, accepted>>

state == <<marketclosed, betenddatetime, containerofbetsjson, betvalue>>

-----------------------------------------------------------------------------
(* Bounds of the model *)

MaxTime == 61

Creator == "creator"
Callers == {Creator, "bob", "carol"}
Labels == {"yes", "no"}
NoParam == "<absent>"

BetAmounts == {100, 300}

\* an incoming balance is an i64: <<hi, lo>> stands for hi * 2^31 + lo, 0 <= lo < 2^31
Incoming(amount) == <<0, amount>>
BigIncoming == <<1, 0>>
\* `incoming.to_string().parse::<i32>()` succeeds for the values of an i32
FitsI32(incoming) == incoming[1] = 0

MaxI32 == 2147483647
MinI32 == (0 - MaxI32) - 1

NoBet == [betamount |-> -1, betisforvalue |-> NoParam]
LateOnly == [betamount |-> -1, betisforvalue |-> "<late>"]

-----------------------------------------------------------------------------
(* BETENDUTC parsing: "%Y-%m-%d %H:%M" read as UTC, to a UNIX timestamp *)

NoEnd == <<>>
BetEndInputs == {NoEnd, <<1970, 1, 1, 0, 1>>, <<1970, 13, 1, 0, 0>>}

IsLeap(y) == (y % 4 = 0 /\ y % 100 # 0) \/ y % 400 = 0

DaysInMonth(y, m) ==
    IF m = 2 THEN (IF IsLeap(y) THEN 29 ELSE 28)
    ELSE IF m \in {4, 6, 9, 11} THEN 30 ELSE 31

\* days from 1970-01-01 to January 1st of year y (the inputs drawn are not before 1970)
RECURSIVE DaysBeforeYear(_)
DaysBeforeYear(y) ==
    IF y <= 1970 THEN 0
    ELSE DaysBeforeYear(y - 1) + (IF IsLeap(y - 1) THEN 366 ELSE 365)

RECURSIVE DaysBeforeMonth(_, _)
DaysBeforeMonth(y, m) ==
    IF m <= 1 THEN 0 ELSE DaysBeforeMonth(y, m - 1) + DaysInMonth(y, m - 1)

ParseOk(s) ==
    /\ Len(s) = 5
    /\ s[2] \in 1..12
    /\ s[3] \in 1..DaysInMonth(s[1], s[2])
    /\ s[4] \in 0..23
    /\ s[5] \in 0..59

Timestamp(s) ==
    (DaysBeforeYear(s[1]) + DaysBeforeMonth(s[1], s[2]) + (s[3] - 1)) * 86400
        + s[4] * 3600 + s[5] * 60

\* the host clock starts at the end time that initmarket can set (00:01 = 60 s)
StartTime == Timestamp(<<1970, 1, 1, 0, 1>>)
Times == StartTime..MaxTime

-----------------------------------------------------------------------------
(* 32-bit integer accumulation: `a + b` on i32.  An overflowing addition   *)
(* wraps in a build without overflow checks and panics in one with them.   *)

AddOverflows(a, b) == a > 0 /\ b > MaxI32 - a

AddI32(a, b) ==
    IF AddOverflows(a, b) THEN ((a - MaxI32) - 1) + ((b - MaxI32) - 1) ELSE a + b

-----------------------------------------------------------------------------
(* IEEE-754 single precision, round to nearest even.  A finite non-zero    *)
(* value is neg, m, e with 2^23 <= m < 2^24 and magnitude m * 2^e.  The    *)
(* exponents that occur (quotients and products of 32-bit integers) are    *)
(* far inside the format's range, so there are no subnormals or overflows. *)

Two23 == 8388608
Two24 == 16777216
Two12 == 4096

FZero == [cls |-> "zero", neg |-> FALSE, m |-> 0, e |-> 0]
FNaN  == [cls |-> "nan",  neg |-> FALSE, m |-> 0, e |-> 0]
FInf(neg) == [cls |-> "inf", neg |-> neg, m |-> 0, e |-> 0]
FFin(neg, m, e) == [cls |-> "fin", neg |-> neg, m |-> m, e |-> e]

BitLen(n) == CHOOSE k \in 1..31 : 2^(k-1) <= n /\ (k = 31 \/ n < 2^k)

\* q holds the leading 24 bits, rem the bits dropped, half the weight of half a unit of q
RoundNearestEven(neg, q, e, rem, half) ==
    LET up == rem > half \/ (rem = half /\ q % 2 = 1)
        q1 == IF up THEN q + 1 ELSE q
    IN  IF q1 = Two24 THEN FFin(neg, Two23, e + 1) ELSE FFin(neg, q1, e)

\* `n as f32`
I32ToF32(n) ==
    IF n = 0 THEN FZero
    ELSE IF n = MinI32 THEN FFin(TRUE, Two23, 8)
    ELSE LET mag == IF n < 0 THEN 0 - n ELSE n
             len == BitLen(mag)
         IN  IF len <= 24
             THEN FFin(n < 0, mag * 2^(24 - len), len - 24)
             ELSE LET s == len - 24
                  IN  RoundNearestEven(n < 0, mag \div 2^s, s, mag % 2^s, 2^(s-1))

\* k further quotient bits of r / d by long division: <<quotient, remainder>>
RECURSIVE LongDiv(_, _, _, _)
LongDiv(q, r, d, k) ==
    IF k = 0 THEN <<q, r>>
    ELSE IF 2 * r >= d THEN LongDiv(2 * q + 1, 2 * r - d, d, k - 1)
         ELSE LongDiv(2 * q, 2 * r, d, k - 1)

\* `x / y`
F32Div(x, y) ==
    IF x.cls = "nan" \/ y.cls = "nan" THEN FNaN
    ELSE IF x.cls = "inf" THEN (IF y.cls = "inf" THEN FNaN ELSE FInf(x.neg # y.neg))
    ELSE IF y.cls = "inf" THEN FZero
    ELSE IF y.cls = "zero" THEN (IF x.cls = "zero" THEN FNaN ELSE FInf(x.neg # y.neg))
    ELSE IF x.cls = "zero" THEN FZero
    ELSE LET k  == IF x.m >= y.m THEN 23 ELSE 24
             qr == LongDiv(x.m \div y.m, x.m % y.m, y.m, k)
         IN  \* 2 * remainder against the divisor decides the rounding
             RoundNearestEven(x.neg # y.neg, qr[1], (x.e - y.e) - k, 2 * qr[2], y.m)

\* `x * y`: the 48-bit product of the mantissas in two 24-bit halves
F32Mul(x, y) ==
    IF x.cls = "nan" \/ y.cls = "nan" THEN FNaN
    ELSE IF x.cls = "inf" \/ y.cls = "inf"
         THEN (IF x.cls = "zero" \/ y.cls = "zero" THEN FNaN ELSE FInf(x.neg # y.neg))
    ELSE IF x.cls = "zero" \/ y.cls = "zero" THEN FZero
    ELSE LET xh == x.m \div Two12   xl == x.m % Two12
             yh == y.m \div Two12   yl == y.m % Two12
             mid == xh * yl + xl * yh
             lo0 == xl * yl + (mid % Two12) * Two12
             lo  == lo0 % Two24
             hi  == xh * yh + mid \div Two12 + lo0 \div Two24
             neg == x.neg # y.neg
         IN  IF hi >= Two23
             THEN RoundNearestEven(neg, hi, x.e + y.e + 24, lo, Two23)
             ELSE RoundNearestEven(neg, 2 * hi + lo \div Two23, x.e + y.e + 23,
                                   lo % Two23, Two23 \div 2)

\* `x as i64`: truncation toward zero, NaN to 0, saturating.  Magnitudes of
\* 2^31 and more are outside the integers of the model and are not produced
\* by the amounts drawn; they are kept apart from every integer.
OutOfRange(neg) == IF neg THEN "below -2^31" ELSE "2^31 or above"

F32ToI64(x) ==
    IF x.cls = "nan" \/ x.cls = "zero" THEN 0
    ELSE IF x.cls = "inf" THEN OutOfRange(x.neg)
    ELSE IF x.e = 8 /\ x.m = Two23 /\ x.neg THEN MinI32
    ELSE IF x.e > 7 THEN OutOfRange(x.neg)
    ELSE LET mag == IF x.e >= 0 THEN x.m * 2^(x.e)
                    ELSE IF x.e <= -24 THEN 0 ELSE x.m \div 2^(0 - x.e)
         IN  IF x.neg THEN 0 - mag ELSE mag

\* lib.rs line 210
WinAmount(betamount, totalbetamountforvalue, totalbetamount) ==
    F32ToI64(F32Mul(F32Div(I32ToF32(betamount), I32ToF32(totalbetamountforvalue)),
                    I32ToF32(totalbetamount)))

-----------------------------------------------------------------------------
(* The stored bets: struct ContainerOfBets { map: HashMap<String, Bet> },  *)
(* kept in the state as a JSON string.  The string is modelled by the set  *)
(* of members of the JSON object, "" by the empty set.                     *)

Bet(betamount, betisforvalue) ==
    [betamount |-> betamount, betisforvalue |-> betisforvalue]

EmptyMap == [a \in {} |-> NoBet]

\* serde_json::from_str: one map entry per key of the object
FromJson(json) ==
    [a \in {mem.key : mem \in json} |->
        LET mem == CHOOSE x \in json : x.key = a
        IN  Bet(mem.betamount, mem.betisforvalue)]

\* serde_json::to_string: one member per entry of the map
ToJson(map) ==
    {[key |-> a, betamount |-> map[a].betamount, betisforvalue |-> map[a].betisforvalue] :
        a \in DOMAIN map}

\* an insert that keeps the value already stored under the key
MapInsertKeepsFirst(map, key, value) ==
    [a \in DOMAIN map \cup {key} |-> IF a \in DOMAIN map THEN map[a] ELSE value]

\* HashMap::insert: the value stored under the key is replaced
MapInsert(map, key, value) ==
    [a \in DOMAIN map \cup {key} |-> IF a = key THEN value ELSE map[a]]

\* the orders in which a HashMap with these keys can be iterated
IterationOrders(keys) ==
    {ord \in [1..Cardinality(keys) -> keys] :
        \A i, j \in 1..Cardinality(keys) : i # j => ord[i] # ord[j]}

-----------------------------------------------------------------------------
(* Timing gates *)

\* the gate without the "no end time" case
BetOnTimeNoSentinel(currtime, betend) == currtime <= betend

\* the gate with the comparison turned around
BetOnTimeFlipped(currtime, betend) == betend = 0 \/ (betend # 0 /\ currtime >= betend)

\* lib.rs line 92
BetOnTime(currtime, betend) == betend = 0 \/ (betend # 0 /\ currtime <= betend)

\* the gate letting the end time itself pass
CloseOnTimeAtDeadline(currtime, betend) == betend = 0 \/ (betend # 0 /\ currtime >= betend)

\* lib.rs line 166
CloseOnTime(currtime, betend) == betend = 0 \/ (betend # 0 /\ currtime > betend)

\* the authorisation passing for every caller
AuthorisedAnyone(caller) == caller \in Callers

\* lib.rs lines 43 and 149
Authorised(caller) == caller = Creator

-----------------------------------------------------------------------------
(* Settlement, lib.rs lines 184-221 *)

NoTotals == [totalbetamount |-> 0, betvalue_totalbetamount |-> [l \in {} |-> 0],
             overflowed |-> FALSE]

\* one round of the loop of lines 187-194
AddBet(acc, bet) ==
    LET per == acc.betvalue_totalbetamount
        l   == bet.betisforvalue
    IN  [totalbetamount |-> AddI32(acc.totalbetamount, bet.betamount),
         betvalue_totalbetamount |->
            IF l \in DOMAIN per
            THEN [per EXCEPT ![l] = AddI32(per[l], bet.betamount)]
            ELSE [k \in DOMAIN per \cup {l} |-> IF k = l THEN bet.betamount ELSE per[k]],
         overflowed |-> \/ acc.overflowed
                        \/ AddOverflows(acc.totalbetamount, bet.betamount)
                        \/ (l \in DOMAIN per /\ AddOverflows(per[l], bet.betamount))]

RECURSIVE SumBets(_, _, _, _)
SumBets(map, ord, i, acc) ==
    IF i > Len(ord) THEN acc
    ELSE SumBets(map, ord, i + 1, AddBet(acc, map[ord[i]]))

\* the loop without the test `winamount > 0`
RECURSIVE SendCoinsAlsoZero(_, _, _, _, _)
SendCoinsAlsoZero(map, ord, i, betvaluewinning, totals) ==
    IF i > Len(ord) THEN <<>>
    ELSE LET bet  == map[ord[i]]
             rest == SendCoinsAlsoZero(map, ord, i + 1, betvaluewinning, totals)
         IN  IF bet.betisforvalue = betvaluewinning
             THEN <<[to |-> ord[i],
                     amount |-> WinAmount(bet.betamount,
                                          totals.betvalue_totalbetamount[bet.betisforvalue],
                                          totals.totalbetamount)]>> \o rest
             ELSE rest

\* the loop leaving after its first transfer
RECURSIVE SendCoinsFirstOnly(_, _, _, _, _)
SendCoinsFirstOnly(map, ord, i, betvaluewinning, totals) ==
    IF i > Len(ord) THEN <<>>
    ELSE LET bet  == map[ord[i]]
             rest == SendCoinsFirstOnly(map, ord, i + 1, betvaluewinning, totals)
         IN  IF bet.betisforvalue = betvaluewinning
             THEN LET winamount ==
                          WinAmount(bet.betamount,
                                    totals.betvalue_totalbetamount[bet.betisforvalue],
                                    totals.totalbetamount)
                  IN  IF winamount > 0
                      THEN <<[to |-> ord[i], amount |-> winamount]>>
                      ELSE rest
             ELSE rest

\* the loop of lines 206-221: the transfers in the order they are sent
RECURSIVE SendCoins(_, _, _, _, _)
SendCoins(map, ord, i, betvaluewinning, totals) ==
    IF i > Len(ord) THEN <<>>
    ELSE LET bet  == map[ord[i]]
             rest == SendCoins(map, ord, i + 1, betvaluewinning, totals)
         IN  IF bet.betisforvalue = betvaluewinning
             THEN LET winamount ==
                          WinAmount(bet.betamount,
                                    totals.betvalue_totalbetamount[bet.betisforvalue],
                                    totals.totalbetamount)
                  IN  IF winamount > 0
                      THEN <<[to |-> ord[i], amount |-> winamount]>> \o rest
                      ELSE rest
             ELSE rest

\* whether the build checks i32 additions matters only to a sum that overflows
OverflowBuilds(totals) == IF totals.overflowed THEN BOOLEAN ELSE {FALSE}

-----------------------------------------------------------------------------
(* Entry points.  A failed require, expect or unwrap panics, and the host  *)
(* drops every state change of the call.                                   *)

NoFunds == [received |-> 0, sent |-> 0]

Call(op, caller, param, result) ==
    [op |-> op, caller |-> caller, betvalue |-> param, result |-> result]

Rejected(op, caller, param, result) ==
    /\ last' = Call(op, caller, param, result)
    /\ transfers' = <<>>
    /\ logged' = NoTotals
    /\ UNCHANGED state

\* the flag compared with a value it never holds
NotYetClosedWrongValue(flag) == flag # "closed"

\* the unset flag taken for an open market
NotYetClosedUnsetIsOpen(flag) == flag # "true"

\* lib.rs line 164
NotYetClosed(flag) == flag = "false"

Init ==
    /\ marketclosed = ""
    /\ betenddatetime = 0
    /\ containerofbetsjson = {}
    /\ betvalue = [c \in Callers |-> ""]
    /\ now = StartTime
    /\ last = Call("deploy", Creator, NoParam, "deployed")
    /\ transfers = <<>>
    /\ logged = NoTotals
    /\ funds = NoFunds
    /\ accepted = [c \in Callers |-> NoBet]

initmarket(caller, betendutc, t) ==
    /\ t >= now
    /\ now' = t
    /\ IF ~Authorised(caller)
       THEN Rejected("initmarket", caller, NoParam, "not_authorised") /\ UNCHANGED accepted
       ELSE IF betendutc # NoEnd /\ ~ParseOk(betendutc)
       THEN Rejected("initmarket", caller, NoParam, "parse_failed") /\ UNCHANGED accepted
       ELSE /\ marketclosed' = "false"
            /\ betenddatetime' = IF betendutc = NoEnd THEN 0 ELSE Timestamp(betendutc)
            /\ last' = Call("initmarket", caller, NoParam, "initialised")
            /\ transfers' = <<>>
            /\ logged' = NoTotals
            /\ UNCHANGED <<containerofbetsjson, betvalue, accepted>>

bet(caller, incoming, param, t) ==
    /\ t >= now
    /\ now' = t
    /\ IF ~BetOnTime(t, betenddatetime)
       THEN /\ Rejected("bet", caller, param, "not_on_time")
            /\ accepted' = [accepted EXCEPT ![caller] = IF @ = NoBet THEN LateOnly ELSE @]
       ELSE IF param = NoParam
       THEN Rejected("bet", caller, param, "param_missing") /\ UNCHANGED accepted
       ELSE IF ~FitsI32(incoming)
       THEN Rejected("bet", caller, param, "amount_not_i32") /\ UNCHANGED accepted
       ELSE LET containerofbets == FromJson(containerofbetsjson)
                inserted == MapInsert(containerofbets, caller, Bet(incoming[2], param))
            IN  /\ betvalue' = [betvalue EXCEPT ![caller] = param]
                /\ containerofbetsjson' = ToJson(inserted)
                /\ accepted' = [accepted EXCEPT ![caller] = Bet(incoming[2], param)]
                /\ last' = Call("bet", caller, param,
                                 IF caller \in DOMAIN containerofbets THEN "replaced" ELSE "placed")
                /\ transfers' = <<>>
                /\ logged' = NoTotals
                /\ UNCHANGED <<marketclosed, betenddatetime>>

closemarket(caller, param, t) ==
    /\ t >= now
    /\ now' = t
    /\ IF ~Authorised(caller)
       THEN Rejected("closemarket", caller, param, "not_authorised") /\ UNCHANGED accepted
       ELSE IF param = NoParam
       THEN Rejected("closemarket", caller, param, "param_missing") /\ UNCHANGED accepted
       ELSE IF ~NotYetClosed(marketclosed)
       THEN Rejected("closemarket", caller, param, "already_closed") /\ UNCHANGED accepted
       ELSE IF ~CloseOnTime(t, betenddatetime)
       THEN Rejected("closemarket", caller, param, "too_early") /\ UNCHANGED accepted
       ELSE IF containerofbetsjson = {}
       THEN /\ marketclosed' = "true"
            /\ last' = Call("closemarket", caller, param, "no_bets")
            /\ transfers' = <<>>
            /\ logged' = NoTotals
            /\ UNCHANGED <<betenddatetime, containerofbetsjson, betvalue, accepted>>
       ELSE LET containerofbets == FromJson(containerofbetsjson)
            IN  \E ord \in IterationOrders(DOMAIN containerofbets) :
                \E overflowchecks \in OverflowBuilds(SumBets(containerofbets, ord, 1, NoTotals)) :
                    LET totals == SumBets(containerofbets, ord, 1, NoTotals)
                    IN  IF totals.overflowed /\ overflowchecks
                        THEN Rejected("closemarket", caller, param, "add_overflow")
                             /\ UNCHANGED accepted
                        ELSE /\ marketclosed' = "true"
                             /\ transfers' = SendCoins(containerofbets, ord, 1, param, totals)
                             /\ logged' = totals
                             /\ last' = Call("closemarket", caller, param, "executed")
                             /\ UNCHANGED <<betenddatetime, containerofbetsjson,
                                            betvalue, accepted>>

\* the funds history is kept by the specification that is about it (SpecFunds)
InitMarket ==
    \E c \in Callers, s \in BetEndInputs, t \in Times :
        initmarket(c, s, t) /\ UNCHANGED funds

PlaceBet ==
    \E c \in Callers, a \in {Incoming(n) : n \in BetAmounts} \cup {BigIncoming},
       p \in Labels \cup {NoParam}, t \in Times : bet(c, a, p, t) /\ UNCHANGED funds

CloseMarket ==
    \E c \in Callers, p \in Labels \cup {NoParam}, t \in Times :
        closemarket(c, p, t) /\ UNCHANGED funds

Next == InitMarket \/ PlaceBet \/ CloseMarket

Spec == Init /\ [][Next]_vars

-----------------------------------------------------------------------------
(* Settlement on its own: the market is open without an end time, every    *)
(* caller holds no bet or one bet of a wider range of amounts (the state   *)
(* after initmarket, bets, and initmarket again), and the creator closes.  *)

SettleAmounts == {0, 1, 2, 100, 300, 600, 12727010, 16777219}

Wagers == {NoBet} \cup {Bet(a, l) : a \in SettleAmounts, l \in Labels}

InitSettle ==
    \E w \in [Callers -> Wagers] :
        /\ marketclosed = "false"
        /\ betenddatetime = 0
        /\ containerofbetsjson = ToJson([c \in {x \in Callers : w[x] # NoBet} |-> w[c]])
        /\ betvalue = [c \in Callers |-> IF w[c] = NoBet THEN "" ELSE w[c].betisforvalue]
        /\ now = StartTime
        /\ last = Call("initmarket", Creator, NoParam, "initialised")
        /\ transfers = <<>>
        /\ logged = NoTotals
        /\ funds = NoFunds
        /\ accepted = w

CreatorCloses ==
    \E p \in Labels \cup {NoParam} : closemarket(Creator, p, now) /\ UNCHANGED funds

SpecSettle == InitSettle /\ [][CreatorCloses]_vars

-----------------------------------------------------------------------------
(* Settlement of bets whose sum does not fit the i32 accumulators of lines *)
(* 184-194, each bet being an i32 (line 71).                               *)

OverflowAmounts == {100, 1073741824}

OverflowWagers == {NoBet} \cup {Bet(a, l) : a \in OverflowAmounts, l \in Labels}

InitOverflow ==
    \E w \in [Callers -> OverflowWagers] :
        /\ marketclosed = "false"
        /\ betenddatetime = 0
        /\ containerofbetsjson = ToJson([c \in {x \in Callers : w[x] # NoBet} |-> w[c]])
        /\ betvalue = [c \in Callers |-> IF w[c] = NoBet THEN "" ELSE w[c].betisforvalue]
        /\ now = StartTime
        /\ last = Call("initmarket", Creator, NoParam, "initialised")
        /\ transfers = <<>>
        /\ logged = NoTotals
        /\ funds = NoFunds
        /\ accepted = w

SpecOverflow == InitOverflow /\ [][CreatorCloses]_vars

-----------------------------------------------------------------------------
(* The two time gates: the market was initialised, with or without the end *)
(* time StartTime, at a time before it, and calls arrive before, at and    *)
(* after that time.                                                        *)

GateSpan == 2

GateTimes == (StartTime - GateSpan)..(StartTime + GateSpan)

InitGates ==
    \E s \in {x \in BetEndInputs : x = NoEnd \/ ParseOk(x)} :
        /\ marketclosed = "false"
        /\ betenddatetime = (IF s = NoEnd THEN 0 ELSE Timestamp(s))
        /\ containerofbetsjson = {}
        /\ betvalue = [c \in Callers |-> ""]
        /\ now = StartTime - GateSpan
        /\ last = Call("initmarket", Creator, NoParam, "initialised")
        /\ transfers = <<>>
        /\ logged = NoTotals
        /\ funds = NoFunds
        /\ accepted = [c \in Callers |-> NoBet]

GateInit ==
    \E s \in BetEndInputs, t \in GateTimes :
        initmarket(Creator, s, t) /\ UNCHANGED funds

GateBet ==
    \E c \in Callers, p \in Labels, t \in GateTimes :
        bet(c, Incoming(100), p, t) /\ UNCHANGED funds

GateClose ==
    \E p \in Labels, t \in GateTimes :
        closemarket(Creator, p, t) /\ UNCHANGED funds

NextGates == GateInit \/ GateBet \/ GateClose

SpecGates == InitGates /\ [][NextGates]_vars

-----------------------------------------------------------------------------
(* The market after a closemarket that found no bets: the state reached    *)
(* from Init by initmarket(creator, s) and closemarket(creator, l) at a    *)
(* time past the end time, if one was set.  Every call may follow.         *)

InitEmptyClosed ==
    \E s \in {x \in BetEndInputs : x = NoEnd \/ ParseOk(x)}, l \in Labels, t \in Times :
        /\ marketclosed = "true"
        /\ betenddatetime = (IF s = NoEnd THEN 0 ELSE Timestamp(s))
        /\ CloseOnTime(t, betenddatetime)
        /\ containerofbetsjson = {}
        /\ betvalue = [c \in Callers |-> ""]
        /\ now = t
        /\ last = Call("closemarket", Creator, l, "no_bets")
        /\ transfers = <<>>
        /\ logged = NoTotals
        /\ funds = NoFunds
        /\ accepted = [c \in Callers |-> NoBet]

SpecEmptyClosed == InitEmptyClosed /\ [][Next]_vars

-----------------------------------------------------------------------------
(* Lifecycle properties.  Every step of Next is one call, described by     *)
(* last' and made at time now'.                                            *)

StoredBettors == {mem.key : mem \in containerofbetsjson}

\* C1: once the closed flag is "true" no later call sets it back, so that
\* no second settlement is possible.
C1_ClosedNeverReopens == [][marketclosed = "true" => marketclosed' = "true"]_vars

\* C2: once the closed flag is "true" no call adds or replaces a stored bet.
C2_ClosedLedgerFrozen ==
    [][marketclosed = "true" => containerofbetsjson' = containerofbetsjson]_vars

\* C3: while initmarket has never run (the flag is still unset) no bet is stored.
C3_NoBetBeforeInit == marketclosed = "" => containerofbetsjson = {}

\* C4, as stated: a closemarket call of the creator that directly follows
\* another closemarket call of the creator (both carrying a winning value)
\* ends as already closed, sends nothing, and leaves the stored bets and the
\* closed flag as they were.
C4_SecondCloseRejected ==
    [][(/\ last.op = "closemarket" /\ last.caller = Creator
        /\ last.betvalue # NoParam
        /\ last'.op = "closemarket" /\ last'.caller = Creator
        /\ last'.betvalue # NoParam)
       => (/\ last'.result = "already_closed"
           /\ transfers' = <<>>
           /\ containerofbetsjson' = containerofbetsjson
           /\ marketclosed' = marketclosed)]_vars

\* C4, amended: a closemarket call of the creator that carries a winning
\* value and directly follows a closemarket call which set the closed flag
\* ends as already closed, sends nothing, and leaves the stored bets and the
\* closed flag as they were.
C4_CloseAfterClosingRejected ==
    [][(/\ last.op = "closemarket" /\ last.result \in {"executed", "no_bets"}
        /\ last'.op = "closemarket" /\ last'.caller = Creator
        /\ last'.betvalue # NoParam)
       => (/\ last'.result = "already_closed"
           /\ transfers' = <<>>
           /\ containerofbetsjson' = containerofbetsjson
           /\ marketclosed' = marketclosed
           /\ marketclosed' = "true")]_vars

\* a second closemarket was turned away although bets on its winning value are stored
C4_Witness ==
    /\ last.op = "closemarket" /\ last.caller = Creator
    /\ last.result = "already_closed"
    /\ marketclosed = "true"
    /\ \E mem \in containerofbetsjson : mem.betisforvalue = last.betvalue

\* C5: an initmarket or closemarket call by anyone but the creator changes
\* neither the end time, the closed flag nor the stored bets, and sends nothing.
C5_UnauthorisedRejected ==
    [][(last'.op \in {"initmarket", "closemarket"} /\ last'.caller # Creator)
       => (/\ last'.result = "not_authorised"
           /\ UNCHANGED state
           /\ transfers' = <<>>)]_vars

\* a stranger's closemarket was turned away in a state where the creator's would have paid
C5_Witness ==
    /\ last.op = "closemarket" /\ last.caller # Creator
    /\ last.result = "not_authorised"
    /\ marketclosed = "false"
    /\ CloseOnTime(now, betenddatetime)
    /\ \E mem \in containerofbetsjson : mem.betisforvalue = last.betvalue

\* C6: the stored bets hold exactly one member per caller whose bet was
\* stored, with the amount and value of that caller's most recent stored bet;
\* their number is the number of such callers.
C6_OneWagerPerBettor ==
    /\ \A c \in Callers :
          IF accepted[c] \in {NoBet, LateOnly}
          THEN \A mem \in containerofbetsjson : mem.key # c
          ELSE {mem \in containerofbetsjson : mem.key = c}
                  = {[key |-> c, betamount |-> accepted[c].betamount,
                      betisforvalue |-> accepted[c].betisforvalue]}
    /\ Cardinality(containerofbetsjson)
          = Cardinality({c \in Callers : accepted[c] \notin {NoBet, LateOnly}})

\* a caller has just replaced its bet while the other callers hold bets too
C6_Witness ==
    /\ last.op = "bet" /\ last.result = "replaced"
    /\ Cardinality(containerofbetsjson) = Cardinality(Callers)
    /\ \E mem \in containerofbetsjson : mem.key = last.caller /\ mem.betamount = 300

\* C7: with no end time stored (betenddatetime = 0) no bet is turned away as late.
C7_NoDeadlineNeverLate ==
    (last.op = "bet" /\ last.result = "not_on_time") => betenddatetime # 0

\* the market was initialised without end time and a bet was stored at the latest time
C7_Witness ==
    /\ marketclosed = "false" /\ betenddatetime = 0
    /\ last.op = "bet" /\ last.result \in {"placed", "replaced"}
    /\ now = MaxTime

\* C8: a bet made after a stored end time leaves the stored bets as they
\* were, and no settlement sends anything to a caller all of whose bets came late.
C8_LateBetNotRecorded ==
    [][/\ (last'.op = "bet" /\ betenddatetime # 0 /\ now' > betenddatetime)
            => (last'.result = "not_on_time"
                /\ containerofbetsjson' = containerofbetsjson)
       /\ \A i \in DOMAIN transfers' : accepted'[transfers'[i].to] # LateOnly]_vars

\* a settlement has paid winners while some caller had only bet late
C8_Witness ==
    /\ last.op = "closemarket" /\ last.result = "executed"
    /\ betenddatetime # 0
    /\ transfers # <<>>
    /\ \E c \in Callers : accepted[c] = LateOnly /\ c \notin StoredBettors

-----------------------------------------------------------------------------
(* Settlement properties, in exact integer arithmetic *)

RECURSIVE SumOf(_)
SumOf(S) ==
    IF S = {} THEN 0
    ELSE LET x == CHOOSE y \in S : TRUE IN x.betamount + SumOf(S \ {x})

RECURSIVE SumTransfers(_, _)
SumTransfers(seq, i) ==
    IF i > Len(seq) THEN 0 ELSE seq[i].amount + SumTransfers(seq, i + 1)

\* <<floor(a * b / d), (a * b) % d>>, one bit of a at a time
RECURSIVE MulDivMod(_, _, _)
MulDivMod(a, b, d) ==
    IF a = 0 THEN <<0, 0>>
    ELSE LET h == MulDivMod(a \div 2, b, d)
             x == 2 * h[2] + (a % 2) * b
         IN  <<2 * h[1] + x \div d, x % d>>

TotalPool == SumOf(containerofbetsjson)
TotalFor(l) == SumOf({mem \in containerofbetsjson : mem.betisforvalue = l})

\* floor(a * totalPool / totalForWinningLabel)
FloorShare(a, l) == IF TotalFor(l) = 0 THEN 0 ELSE MulDivMod(a, TotalPool, TotalFor(l))[1]

Settled == last.op = "closemarket" /\ last.result = "executed"

\* C9: after a settlement every stored bet on the winning value has been
\* sent floor(a * totalPool / totalForWinningLabel), the totals being the
\* sums of the stored amounts (nothing is sent where that is 0).
C9_PayoutIsFloorShare ==
    Settled =>
        \A mem \in containerofbetsjson :
            mem.betisforvalue = last.betvalue =>
                LET share == FloorShare(mem.betamount, last.betvalue)
                    sent  == {i \in DOMAIN transfers : transfers[i].to = mem.key}
                IN  IF share = 0 THEN sent = {}
                    ELSE \E i \in sent : transfers[i].amount = share

\* C10: the amounts sent by a settlement add up to at most the sum of the
\* stored amounts.
C10_PayoutsWithinPool == Settled => SumTransfers(transfers, 1) <= TotalPool

\* C11: every transfer of a settlement is of more than 0 and goes to a
\* caller whose stored bet is on the winning value with an amount above 0;
\* a caller whose stored bet is on another value is sent nothing, and no
\* caller is sent two transfers.
C11_OnlyWinnersPaidOnce ==
    /\ \A i \in DOMAIN transfers :
          /\ transfers[i].amount > 0
          /\ \E mem \in containerofbetsjson :
                /\ mem.key = transfers[i].to
                /\ mem.betisforvalue = last.betvalue
                /\ mem.betamount > 0
    /\ \A mem \in containerofbetsjson :
          mem.betisforvalue # last.betvalue =>
              \A i \in DOMAIN transfers : transfers[i].to # mem.key
    /\ \A i, j \in DOMAIN transfers : i # j => transfers[i].to # transfers[j].to

\* a settlement paid a winner, paid nothing to a loser with a stake, and
\* nothing to a winner whose stake is 0
C11_Witness ==
    /\ Settled
    /\ transfers # <<>>
    /\ \E mem \in containerofbetsjson :
          mem.betisforvalue # last.betvalue /\ mem.betamount > 0
    /\ \E mem \in containerofbetsjson :
          mem.betisforvalue = last.betvalue /\ mem.betamount = 0

\* C12: a closemarket call that passes every gate while bets are stored but
\* none of them is on the winning value sends nothing and leaves the market
\* closed.
C12_NoWinnerNoPayout ==
    [][(/\ last'.op = "closemarket" /\ last'.caller = Creator
        /\ last'.betvalue # NoParam
        /\ marketclosed = "false"
        /\ (betenddatetime = 0 \/ now' > betenddatetime)
        /\ containerofbetsjson # {}
        /\ \A mem \in containerofbetsjson : mem.betisforvalue # last'.betvalue)
       => (/\ last'.result = "executed"
           /\ transfers' = <<>>
           /\ marketclosed' = "true"
           /\ containerofbetsjson' = containerofbetsjson)]_vars

\* C13: after a closemarket of the creator that found no bet stored (it sent
\* nothing and set the closed flag), every later closemarket of the creator
\* ends as already closed and sends nothing, also when bets are stored by then.
C13_EmptyCloseIsFinal ==
    [][(/\ last'.op = "closemarket" /\ last'.caller = Creator
        /\ last'.betvalue # NoParam)
       => (last'.result = "already_closed" /\ transfers' = <<>>)]_vars

\* C14: a closemarket call that ends with a missing parameter, as already
\* closed, as too early or for want of bets leaves the end time, the closed
\* flag and the stored bets as they were and sends nothing.
C14_RejectedCloseChangesNothing ==
    [][(/\ last'.op = "closemarket"
        /\ last'.result \in {"param_missing", "already_closed", "too_early", "no_bets"})
       => (UNCHANGED state /\ transfers' = <<>>)]_vars

\* C15: once initmarket has run, no call changes the stored end time.
C15_DeadlineImmutable ==
    [][marketclosed # "" => betenddatetime' = betenddatetime]_vars

\* whether v is the exact sum of the amounts of the members S, computed
\* without leaving the range of the amounts
RECURSIVE IsExactSum(_, _)
IsExactSum(S, v) ==
    IF S = {} THEN v = 0
    ELSE LET x == CHOOSE y \in S : TRUE
         IN  x.betamount <= v /\ IsExactSum(S \ {x}, v - x.betamount)

\* C16: no settlement stops on an overflowing addition, and the total and the
\* totals per value that a settlement computes are the exact sums of the
\* stored amounts.
C16_TotalsExact ==
    /\ last.result # "add_overflow"
    /\ Settled =>
          /\ IsExactSum(containerofbetsjson, logged.totalbetamount)
          /\ \A l \in DOMAIN logged.betvalue_totalbetamount :
                IsExactSum({mem \in containerofbetsjson : mem.betisforvalue = l},
                           logged.betvalue_totalbetamount[l])

\* C17: with an end time stored, a bet passes its time gate exactly when the
\* time is at most the end time, and a closemarket of the creator on a market
\* not yet closed passes its time gate exactly when the time is past the end
\* time, so that no time passes both gates; with no end time stored every
\* time passes both.
C17_GatesComplement ==
    [][/\ last'.op = "bet" =>
              (last'.result # "not_on_time"
                  <=> (betenddatetime = 0 \/ now' <= betenddatetime))
       /\ (last'.op = "closemarket" /\ marketclosed = "false") =>
              (last'.result # "too_early"
                  <=> (betenddatetime = 0 \/ now' > betenddatetime))
       /\ IF betenddatetime = 0
          THEN BetOnTime(now', betenddatetime) /\ CloseOnTime(now', betenddatetime)
          ELSE ~(BetOnTime(now', betenddatetime) /\ CloseOnTime(now', betenddatetime))]_vars

\* at the end time itself a bet is stored and the creator's closemarket has
\* just been turned away as too early
C17_Witness ==
    /\ last.op = "closemarket" /\ last.result = "too_early"
    /\ betenddatetime # 0 /\ now = betenddatetime
    /\ containerofbetsjson # {}

\* C18: the set of (receiver, amount) transfers of a settlement is the set
\* that the loops of closemarket produce in every order in which the stored
\* bets can be iterated.
C18_OrderIndependent ==
    Settled =>
        \A ord \in IterationOrders(StoredBettors) :
            LET containerofbets == FromJson(containerofbetsjson)
                totals == SumBets(containerofbets, ord, 1, NoTotals)
                sent == SendCoins(containerofbets, ord, 1, last.betvalue, totals)
            IN  {sent[i] : i \in DOMAIN sent} = {transfers[i] : i \in DOMAIN transfers}

\* a settlement has paid different amounts to two winners out of three stored bets
C18_Witness ==
    /\ Settled
    /\ Cardinality(containerofbetsjson) = Cardinality(Callers)
    /\ \E i, j \in DOMAIN transfers : transfers[i].amount < transfers[j].amount

-----------------------------------------------------------------------------
(* The funds over the whole history: every bet call brings its incoming    *)
(* amount (line 96), every closemarket sends its transfers (line 215).     *)
(* The creator initialises and closes, two callers bet, until MaxFunds     *)
(* has come in or gone out.                                                *)

MaxFunds == 300

FundsInit ==
    initmarket(Creator, NoEnd, now) /\ UNCHANGED funds

FundsBet ==
    \E c \in Callers \ {Creator}, a \in BetAmounts, p \in Labels :
        /\ funds.received + a <= MaxFunds
        /\ bet(c, Incoming(a), p, now)
        /\ funds' = [funds EXCEPT !.received = @ + a]

FundsClose ==
    \E p \in Labels :
        /\ funds.sent < MaxFunds
        /\ closemarket(Creator, p, now)
        /\ funds' = [funds EXCEPT !.sent = @ + SumTransfers(transfers', 1)]

NextFunds == FundsInit \/ FundsBet \/ FundsClose

SpecFunds == Init /\ [][NextFunds]_vars

\* C19: in every state the amount sent by all closemarket calls so far is at
\* most the amount that came in with all bet calls so far.
C19_Solvent == funds.sent <= funds.received

\* C20: a closemarket call made while initmarket has never run sends nothing
\* and leaves the closed flag and the stored bets as they were.
C20_NoSettlementBeforeInit ==
    [][(marketclosed = "" /\ last'.op = "closemarket")
       => (/\ transfers' = <<>>
           /\ last'.result \notin {"executed", "no_bets"}
           /\ marketclosed' = marketclosed
           /\ containerofbetsjson' = containerofbetsjson)]_vars

\* the creator has just called closemarket, initmarket never ran, and a bet
\* on the value named in the call is stored
C20_Witness ==
    /\ marketclosed = ""
    /\ last.op = "closemarket" /\ last.caller = Creator
    /\ last.result = "already_closed"
    /\ \E mem \in containerofbetsjson :
          mem.betisforvalue = last.betvalue /\ mem.betamount > 0

=============================================================================
